---------------------------- MODULE Spec2Model ----------------------------
(***************************************************************************)
(* A model of homework.py: the fitness tracker module that turns a sensor  *)
(* package (a workout code and a list of readings) into a Training         *)
(* instance, computes distance, mean speed and spent calories, and prints  *)
(* one formatted line per package.                                         *)
(*                                                                         *)
(* Numbers.  The readings are Python ints, as in the packages of the       *)
(* source; every computed quantity is a Python float, an IEEE 754 binary64 *)
(* number.  Floats are modelled bit for bit: a float is a 53-bit           *)
(* significand and a binary exponent, and *, / and + round to nearest,     *)
(* ties to even, as the hardware does.  The power ** is the C library's    *)
(* pow, whose last bit depends on the library: the variable libm holds     *)
(* that choice.  TLC's integers have 32 bits, so significands are kept as  *)
(* sequences of 15-bit limbs.  Readings are non-negative and small, so     *)
(* signs, subnormals, infinities and NaN never arise and are not modelled. *)
(*                                                                         *)
(* Exceptions.  An operation that raises yields an exception value         *)
(* [exc |-> kind, ...]; an operand that is an exception value propagates,  *)
(* left operand first, as Python evaluates operands left to right.         *)
(***************************************************************************)
EXTENDS Integers, Sequences, FiniteSets, TLC

(***************************************************************************)
(* State.                                                                  *)
(*   packages  the batch of the script, pos the entry the loop is at       *)
(*   pc        where the script is                                         *)
(*   training  the instance held (None before the first)                   *)
(*   stdout    the lines printed                                           *)
(*   raised    the exception that ended the script (None while it runs)    *)
(*   registry  the module's TRAINING_DATA table                            *)
(*   inputs    how the instance held was built                             *)
(*   ret       the last call made by a client of the module, its result    *)
(*   infos     the InfoMessages produced from instances built from inputs  *)
(*   builds    how many instances the client has built from inputs         *)
(*   shows     how many times the client has called show_training_info     *)
(*   libm      how the C library's pow, which Python's ** calls, rounds a   *)
(*             power that is not a float: to the float below or above it   *)
(* The client may build and call without limit; the two tallies tell none, *)
(* one and more than one apart.                                            *)
(***************************************************************************)
VARIABLES packages, pos, pc, training, stdout, raised, registry, inputs, ret,
          infos, builds, shows, libm

vars == <<packages, pos, pc, training, stdout, raised, registry, inputs, ret,
          infos, builds, shows, libm>>

(***************************************************************************)
(* Natural numbers of any size: little-endian sequences of 15-bit limbs    *)
(* with no high zero limb (so equal numbers are equal sequences).          *)
(***************************************************************************)
BASE == 2^15

\* The definitions below name their intermediate results as parameters of
\* helper operators rather than in LET: TLC computes a parameter once.

RECURSIVE Strip(_)
Strip(s) ==
    IF s = <<>> THEN <<>>
    ELSE IF s[Len(s)] = 0 THEN Strip(SubSeq(s, 1, Len(s) - 1))
    ELSE s

Limb(a, i) == IF i >= 1 /\ i <= Len(a) THEN a[i] ELSE 0

MaxOf(x, y) == IF x >= y THEN x ELSE y

MinOf(x, y) == IF x <= y THEN x ELSE y

RECURSIVE CarryRec(_, _, _, _)
CarryRec(s, i, c, acc) ==
    IF i > Len(s) /\ c = 0 THEN acc
    ELSE CarryRec(s, i + 1, (Limb(s, i) + c) \div BASE,
                  Append(acc, (Limb(s, i) + c) % BASE))

\* The number whose i-th limb position holds the (possibly too large) s[i].
Carry(s) == Strip(CarryRec(s, 1, 0, <<>>))

BigFromInt(n) == Carry(<<n>>)

BigAdd(a, b) == Carry([i \in 1..MaxOf(Len(a), Len(b)) |-> Limb(a, i) + Limb(b, i)])

RECURSIVE BorrowRec(_, _, _, _, _)
BorrowRec(a, b, i, br, acc) ==
    IF i > Len(a) THEN acc
    ELSE IF a[i] - Limb(b, i) - br < 0
    THEN BorrowRec(a, b, i + 1, 1, Append(acc, a[i] - Limb(b, i) - br + BASE))
    ELSE BorrowRec(a, b, i + 1, 0, Append(acc, a[i] - Limb(b, i) - br))

\* a - b, for a >= b.
BigSub(a, b) == Strip(BorrowRec(a, b, 1, 0, <<>>))

RECURSIVE CmpRec(_, _, _)
CmpRec(a, b, i) ==
    IF i = 0 THEN 0
    ELSE IF a[i] < b[i] THEN -1
    ELSE IF a[i] > b[i] THEN 1
    ELSE CmpRec(a, b, i - 1)

\* -1, 0 or 1 as a < b, a = b or a > b.
BigCmp(a, b) ==
    IF Len(a) < Len(b) THEN -1
    ELSE IF Len(a) > Len(b) THEN 1
    ELSE CmpRec(a, b, Len(a))

\* a * k for 0 <= k < BASE.
BigMulSmall(a, k) == Carry([i \in 1..Len(a) |-> a[i] * k])

Zeros(n) == [i \in 1..n |-> 0]

RECURSIVE MulRec(_, _, _, _)
MulRec(a, b, i, acc) ==
    IF i > Len(a) THEN acc
    ELSE MulRec(a, b, i + 1, BigAdd(acc, Strip(Zeros(i - 1) \o BigMulSmall(b, a[i]))))

BigMul(a, b) == MulRec(a, b, 1, <<>>)

RECURSIVE DivSmallRec(_, _, _, _, _)
DivSmallRec(a, d, i, r, acc) ==
    IF i = 0 THEN [q |-> Strip(acc), r |-> r]
    ELSE DivSmallRec(a, d, i - 1, (r * BASE + a[i]) % d,
                     <<(r * BASE + a[i]) \div d>> \o acc)

\* Quotient and remainder of a by d, for 0 < d <= BASE.
BigDivSmall(a, d) == DivSmallRec(a, d, Len(a), 0, <<>>)

\* a * 2^k and floor(a / 2^k).
BigShl(a, k) == Strip(Zeros(k \div 15) \o BigMulSmall(a, 2^(k % 15)))

BigShr(a, k) ==
    IF k \div 15 >= Len(a) THEN <<>>
    ELSE BigDivSmall(SubSeq(a, (k \div 15) + 1, Len(a)), 2^(k % 15)).q

RECURSIVE SmallBitLen(_)
SmallBitLen(n) == IF n = 0 THEN 0 ELSE 1 + SmallBitLen(n \div 2)

\* The number of bits of a (0 for zero).
BitLen(a) == IF a = <<>> THEN 0 ELSE 15 * (Len(a) - 1) + SmallBitLen(a[Len(a)])

\* One digit of schoolbook division: floor(r / d) and the remainder, for
\* r < d * BASE and d with its top limb at least BASE / 2.  The digit is
\* estimated from the top limbs (never too small, at most 2 too large) and
\* then corrected: p is qh * d.
RECURSIVE DivFix(_, _, _, _)
DivFix(r, d, qh, p) ==
    IF BigCmp(p, r) <= 0 THEN [digit |-> qh, rem |-> BigSub(r, p)]
    ELSE DivFix(r, d, qh - 1, BigSub(p, d))

QHat(r, d) ==
    MinOf(BASE - 1, (Limb(r, Len(d) + 1) * BASE + Limb(r, Len(d))) \div d[Len(d)])

DivStep(r, d) == DivFix(r, d, QHat(r, d), BigMulSmall(d, QHat(r, d)))

\* Long division, the limbs of a from the top: r is the remainder so far,
\* acc the digits so far, st the step just made.  The guard on the digit
\* fixes the order of evaluation: a step is finished before the next starts.
RECURSIVE DivRec(_, _, _, _, _)
RECURSIVE DivNext(_, _, _, _, _)
DivRec(a, d, i, r, acc) ==
    IF i = 0 THEN [q |-> Strip(acc), r |-> r]
    ELSE DivNext(a, d, i, acc, DivStep(Strip(<<a[i]>> \o r), d))

DivNext(a, d, i, acc, st) ==
    CASE st.digit >= 0 -> DivRec(a, d, i - 1, st.rem, <<st.digit>> \o acc)

\* The shift that brings the top limb of d to at least BASE / 2.
Norm(d) == 15 * Len(d) - BitLen(d)

Unscale(qr, s) == [q |-> qr.q, r |-> BigShr(qr.r, s)]

DivScaled(a, d, s) == Unscale(DivRec(a, d, Len(a), <<>>, <<>>), s)

\* Quotient and remainder of a by d > 0: long division in base 2^15, after
\* scaling both so that the top limb of the divisor is at least BASE / 2.
BigDivMod(a, d) == DivScaled(BigShl(a, Norm(d)), BigShl(d, Norm(d)), Norm(d))

IsOdd(a) == a # <<>> /\ a[1] % 2 = 1

\* Whether q, the floor of a quotient, is rounded up: c compares the
\* remainder with half the divisor, sticky says that the remainder stands
\* for slightly more (a nonzero part was dropped before).
RoundsUp(c, sticky, q) == c = 1 \/ (c = 0 /\ (sticky \/ IsOdd(q)))

RoundQ(a, k, sticky, q) ==
    IF RoundsUp(BigCmp(BigSub(a, BigShl(q, k)), BigShl(<<1>>, k - 1)), sticky, q)
    THEN BigAdd(q, <<1>>)
    ELSE q

\* a / 2^k rounded to nearest, ties to even.
RoundShr(a, k, sticky) == IF k = 0 THEN a ELSE RoundQ(a, k, sticky, BigShr(a, k))

(***************************************************************************)
(* Python floats: [m |-> significand, e |-> exponent] stands for m * 2^e,  *)
(* with m of exactly 53 bits, or m = 0 and e = 0 for 0.0.  The form is     *)
(* unique, so two floats are equal exactly when their records are.         *)
(***************************************************************************)
Zero == [m |-> <<>>, e |-> 0]

\* A rounded significand q may have reached 2^53: 54 bits.
Renormalize(q, e) ==
    IF BitLen(q) = 54 THEN [m |-> BigShr(q, 1), e |-> e + 1] ELSE [m |-> q, e |-> e]

RoundBits(v, e, sticky, n) ==
    IF n = 0 THEN Zero
    ELSE IF n <= 53 THEN [m |-> BigShl(v, 53 - n), e |-> e - (53 - n)]
    ELSE Renormalize(RoundShr(v, n - 53, sticky), e + (n - 53))

\* v * 2^e (slightly more when sticky) rounded to the nearest float.
Round53(v, e, sticky) == RoundBits(v, e, sticky, BitLen(v))

\* float(n) for a Python int n >= 0.
FromInt(n) == Round53(BigFromInt(n), 0, FALSE)

\* A float, or the exception its computation raised.
IsExc(v) == "exc" \in DOMAIN v

ZeroDivisionError == [exc |-> "ZeroDivisionError"]

FMul(x, y) ==
    IF x = Zero \/ y = Zero THEN Zero
    ELSE Round53(BigMul(x.m, y.m), x.e + y.e, FALSE)

FAdd(x, y) ==
    IF x = Zero THEN y
    ELSE IF y = Zero THEN x
    ELSE Round53(BigAdd(BigShl(x.m, x.e - MinOf(x.e, y.e)),
                        BigShl(y.m, y.e - MinOf(x.e, y.e))),
                 MinOf(x.e, y.e), FALSE)

RoundQuotient(qr, e) == Round53(qr.q, e, qr.r # <<>>)

\* x / y for floats, y nonzero: the quotient of the significands (between
\* 1/2 and 2) to 60 fractional bits, a remainder kept as the sticky bit.
FDiv(x, y) ==
    IF x = Zero THEN Zero
    ELSE RoundQuotient(BigDivMod(Zeros(4) \o x.m, y.m), x.e - y.e - 60)

(***************************************************************************)
(* Python's float arithmetic with its exceptions.  Where the source mixes  *)
(* an int with a float, Python converts the int first: the model writes    *)
(* that conversion out as FromInt.  int / int is true division, the        *)
(* correctly rounded quotient, which for ints below 2^53 is the quotient   *)
(* of the converted operands.  Division by zero raises.                    *)
(***************************************************************************)
PyMul(a, b) ==
    IF IsExc(a) THEN a
    ELSE IF IsExc(b) THEN b
    ELSE FMul(a, b)

PyAdd(a, b) ==
    IF IsExc(a) THEN a
    ELSE IF IsExc(b) THEN b
    ELSE FAdd(a, b)

\* PyDiv with a guard that answers 0.0 where Python raises.
PyDiv_Guarded(a, b) ==
    IF IsExc(a) THEN a
    ELSE IF IsExc(b) THEN b
    ELSE IF b = Zero THEN Zero
    ELSE FDiv(a, b)

PyDiv(a, b) ==
    IF IsExc(a) THEN a
    ELSE IF IsExc(b) THEN b
    ELSE IF b = Zero THEN ZeroDivisionError
    ELSE FDiv(a, b)

\* The ways pow may round.  Python's float ** is the C library's pow, which
\* is not correctly rounded: its error stays below one unit in the last
\* place, so a power that is not a float comes out as one of the two floats
\* around it, and which one depends on the library.  A library is one
\* function, so the same power comes out the same way every time.
PowRoundings == {"below", "above"}

Inexact(v, k) == BigShl(BigShr(v, k), k) # v

\* floor(v / 2^k), or the next integer when v / 2^k is not one and pow
\* rounds to the float above.
Directed(v, k, rounding) ==
    IF rounding = "above" /\ Inexact(v, k) THEN BigAdd(BigShr(v, k), <<1>>)
    ELSE BigShr(v, k)

RoundDirected(v, e, rounding, n) ==
    IF n = 0 THEN Zero
    ELSE IF n <= 53 THEN [m |-> BigShl(v, 53 - n), e |-> e - (53 - n)]
    ELSE Renormalize(Directed(v, n - 53, rounding), e + (n - 53))

\* pow(x, 2.0) under the rounding given.
FPow2(x, rounding) ==
    IF x = Zero THEN Zero
    ELSE RoundDirected(BigMul(x.m, x.m), 2 * x.e, rounding, BitLen(BigMul(x.m, x.m)))

\* x ** 2 for a float x, as the C library of the build computes it.
PySquare(x) == IF IsExc(x) THEN x ELSE FPow2(x, libm)

\* A decimal literal num/den of the source text (0.65 is 65/100): the float
\* nearest to it, which is what correctly rounded division gives.
Literal(num, den) == FDiv(FromInt(num), FromInt(den))

(***************************************************************************)
(* format(x, ".3f"): x times 1000 rounded to an integer, ties to even on   *)
(* the exact binary value, written with the point before the last three    *)
(* digits.                                                                 *)
(***************************************************************************)
Digit == <<"0", "1", "2", "3", "4", "5", "6", "7", "8", "9">>

RECURSIVE Decimal(_)
Decimal(a) ==
    IF a = <<>> THEN ""
    ELSE Decimal(BigDivSmall(a, 10).q) \o Digit[BigDivSmall(a, 10).r + 1]

\* x * 1000 rounded to an integer.
Milli(x) ==
    IF x = Zero THEN <<>>
    ELSE IF x.e >= 0 THEN BigShl(BigMul(x.m, BigFromInt(1000)), x.e)
    ELSE RoundShr(BigMul(x.m, BigFromInt(1000)), -x.e, FALSE)

\* The digits of qr.q, a point, and the three digits of qr.r.
Fixed3(qr) ==
    (IF qr.q = <<>> THEN "0" ELSE Decimal(qr.q)) \o "."
    \o Digit[(qr.r \div 100) + 1] \o Digit[((qr.r \div 10) % 10) + 1]
    \o Digit[(qr.r % 10) + 1]

FormatF3(x) == Fixed3(BigDivSmall(Milli(x), 1000))

(***************************************************************************)
(* The classes.  An instance is a record of its class name and its         *)
(* dataclass fields.  Texts that the source writes in Cyrillic are         *)
(* transliterated: a TLA+ string holds ASCII only.                         *)
(***************************************************************************)
None == [none |-> TRUE]

M_IN_KM == 1000

MIN_IN_HOUR == 60

\* Training.LEN_STEP, overridden by Swimming.
LEN_STEP(cls) == IF cls = "Swimming" THEN Literal(138, 100) ELSE Literal(65, 100)

CALORIES_MEAN_SPEED_MULTIPLIER == 18

CALORIES_MEAN_SPEED_SHIFT == Literal(179, 100)

WEIGHT_MULTIPLIER_1 == Literal(35, 1000)

WEIGHT_MULTIPLIER_2 == Literal(29, 1000)

KMH_TO_MPS_MULTIPLIER == Literal(278, 1000)

SENTIMETERS_IN_METER == 100

MEAN_SPEED_TERM == Literal(11, 10)

WEIGHT_MULTIPLIER == 2

\* fields with the two pool fields of Swimming declared the other way round.
fields_PoolSwapped(cls) ==
    CASE cls = "Training"      -> <<"action", "duration", "weight">>
      [] cls = "Running"       -> <<"action", "duration", "weight">>
      [] cls = "SportsWalking" -> <<"action", "duration", "weight", "height">>
      [] cls = "Swimming"      -> <<"action", "duration", "weight", "count_pool",
                                    "length_pool">>

\* dataclasses.fields(cls): the fields in declaration order, the base
\* class's first.
fields(cls) ==
    LET base == <<"action", "duration", "weight">>
    IN  CASE cls = "Training"      -> base
          [] cls = "Running"       -> base
          [] cls = "SportsWalking" -> base \o <<"height">>
          [] cls = "Swimming"      -> base \o <<"length_pool", "count_pool">>

\* cls(*data), the generated __init__: the i-th argument goes to the i-th
\* field.  Called with as many arguments as the class has fields.
Construct(cls, data) ==
    LET f == fields(cls)
    IN  [k \in {"cls"} \cup {f[i] : i \in 1..Len(f)} |->
            IF k = "cls" THEN cls
            ELSE data[CHOOSE i \in 1..Len(f) : f[i] = k]]

InfoMessage(training_type, duration, distance, speed, calories) ==
    [training_type |-> training_type, duration |-> duration,
     distance |-> distance, speed |-> speed, calories |-> calories]

\* InfoMessage.get_message: INFO.format(**asdict(self)).  The duration is
\* the int reading itself, which the format converts to float.
get_message(info) ==
    "Tip trenirovki: " \o info.training_type \o "; "
    \o "Dlitel'nost': " \o FormatF3(FromInt(info.duration)) \o " ch.; "
    \o "Distanciya: " \o FormatF3(info.distance) \o " km; "
    \o "Sr. skorost': " \o FormatF3(info.speed) \o " km/ch; "
    \o "Potracheno kkal: " \o FormatF3(info.calories) \o "."

\* Training.get_distance, inherited by every class.
get_distance(t) ==
    PyDiv(PyMul(FromInt(t.action), LEN_STEP(t.cls)), FromInt(M_IN_KM))

Training_get_mean_speed(t) == PyDiv(get_distance(t), FromInt(t.duration))

Swimming_get_mean_speed(t) ==
    PyDiv(PyDiv(FromInt(t.length_pool * t.count_pool), FromInt(M_IN_KM)),
          FromInt(t.duration))

\* get_mean_speed without the override of Swimming.
get_mean_speed_Inherited(t) == Training_get_mean_speed(t)

\* self.get_mean_speed(): Swimming overrides, the others inherit.
get_mean_speed(t) ==
    IF t.cls = "Swimming" THEN Swimming_get_mean_speed(t)
    ELSE Training_get_mean_speed(t)

SPENT_CALORIES_ERROR(name) == "Opredelite get_spent_calories v " \o name \o "."

\* The base method answering 0.0 instead of raising.
Training_get_spent_calories_Silent(t) == Zero

Training_get_spent_calories(t) ==
    [exc |-> "NotImplementedError", msg |-> SPENT_CALORIES_ERROR(t.cls)]

\* The Running formula without the conversion of hours to minutes.
Running_get_spent_calories_Hours(t) ==
    PyMul(PyDiv(PyMul(PyAdd(PyMul(FromInt(CALORIES_MEAN_SPEED_MULTIPLIER),
                                  get_mean_speed(t)),
                            CALORIES_MEAN_SPEED_SHIFT),
                      FromInt(t.weight)),
                FromInt(M_IN_KM)),
          FromInt(t.duration))

Running_get_spent_calories(t) ==
    PyMul(PyMul(PyDiv(PyMul(PyAdd(PyMul(FromInt(CALORIES_MEAN_SPEED_MULTIPLIER),
                                        get_mean_speed(t)),
                                  CALORIES_MEAN_SPEED_SHIFT),
                            FromInt(t.weight)),
                      FromInt(M_IN_KM)),
                FromInt(t.duration)),
          FromInt(MIN_IN_HOUR))

SportsWalking_get_spent_calories(t) ==
    PyMul(PyAdd(PyMul(WEIGHT_MULTIPLIER_1, FromInt(t.weight)),
                PyMul(PyMul(PyDiv(PySquare(PyMul(get_mean_speed(t),
                                                 KMH_TO_MPS_MULTIPLIER)),
                                  PyDiv(FromInt(t.height),
                                        FromInt(SENTIMETERS_IN_METER))),
                            WEIGHT_MULTIPLIER_2),
                      FromInt(t.weight))),
          FromInt(t.duration * MIN_IN_HOUR))

Swimming_get_spent_calories(t) ==
    PyMul(PyMul(PyMul(PyAdd(get_mean_speed(t), MEAN_SPEED_TERM),
                      FromInt(WEIGHT_MULTIPLIER)),
                FromInt(t.weight)),
          FromInt(t.duration))

\* self.get_spent_calories(): every subclass overrides, the base raises.
get_spent_calories(t) ==
    CASE t.cls = "Running"       -> Running_get_spent_calories(t)
      [] t.cls = "SportsWalking" -> SportsWalking_get_spent_calories(t)
      [] t.cls = "Swimming"      -> Swimming_get_spent_calories(t)
      [] t.cls = "Training"      -> Training_get_spent_calories(t)

\* The call InfoMessage(...) of show_training_info: the arguments are
\* evaluated in order, and the first one that raises ends the call.
CallInfoMessage(training_type, duration, distance, speed, calories) ==
    IF IsExc(distance) THEN distance
    ELSE IF IsExc(speed) THEN speed
    ELSE IF IsExc(calories) THEN calories
    ELSE InfoMessage(training_type, duration, distance, speed, calories)

show_training_info(t) ==
    CallInfoMessage(t.cls, t.duration, get_distance(t), get_mean_speed(t),
                    get_spent_calories(t))

(***************************************************************************)
(* The registry and read_package.                                          *)
(***************************************************************************)
\* The registry with the base class registered for "RUN".
TRAINING_DATA_Base ==
    [SWM |-> <<"Swimming", Len(fields("Swimming"))>>,
     RUN |-> <<"Training", Len(fields("Training"))>>,
     WLK |-> <<"SportsWalking", Len(fields("SportsWalking"))>>]

TRAINING_DATA ==
    [SWM |-> <<"Swimming", Len(fields("Swimming"))>>,
     RUN |-> <<"Running", Len(fields("Running"))>>,
     WLK |-> <<"SportsWalking", Len(fields("SportsWalking"))>>]

\* The template of the unknown-code message left unfilled.
WORKOUT_TYPE_ERROR_Unfilled(code) == "Tip trenirovki {} ne najden"

WORKOUT_TYPE_ERROR(code) == "Tip trenirovki " \o code \o " ne najden"

\* The message with the two counts the other way round.
WORKOUT_LEN_ERROR_Swapped(code, got, expected) ==
    "Nevernoe chislo argumentov trenirovki " \o code \o ". "
    \o "Polucheno " \o ToString(expected) \o ", ozhidaetsya " \o ToString(got)

WORKOUT_LEN_ERROR(code, got, expected) ==
    "Nevernoe chislo argumentov trenirovki " \o code \o ". "
    \o "Polucheno " \o ToString(got) \o ", ozhidaetsya " \o ToString(expected)

ValueError(msg) == [exc |-> "ValueError", msg |-> msg]

\* read_package, reading the registry table given.
read_package_in(table, workout_type, data) ==
    IF workout_type \notin DOMAIN table
    THEN ValueError(WORKOUT_TYPE_ERROR(workout_type))
    ELSE IF table[workout_type][2] # Len(data)
    THEN ValueError(WORKOUT_LEN_ERROR(workout_type, Len(data), table[workout_type][2]))
    ELSE Construct(table[workout_type][1], data)

read_package(workout_type, data) == read_package_in(TRAINING_DATA, workout_type, data)

\* print(info.get_message()): the line printed, unless computing info raised.
PrintMessage(info) == IF IsExc(info) THEN info ELSE [print |-> get_message(info)]

\* main: print(training.show_training_info().get_message()).
main(t) == PrintMessage(show_training_info(t))

(***************************************************************************)
(* Inputs.  A package is <<workout code, readings>>.                       *)
(***************************************************************************)
MaxLen == 6

MaxPackages == 3

Codes == {"SWM", "RUN", "WLK", "XYZ", "run"}

\* The readings tried at each position of a package: steps or strokes,
\* hours, kilograms, then height or pool length, then pool laps.
Readings(i) ==
    CASE i = 1 -> {0, 720, 15000}
      [] i = 2 -> {0, 1, 2}
      [] i = 3 -> {75, 80}
      [] i = 4 -> {0, 25, 180}
      [] i = 5 -> {40}
      [] OTHER -> {1}

RECURSIVE Lists(_)
Lists(n) ==
    IF n = 0 THEN {<<>>}
    ELSE {Append(l, v) : l \in Lists(n - 1), v \in Readings(n)}

DataLists == UNION {Lists(n) : n \in 0..MaxLen}

\* The packages the batch is drawn from: the three of the source, and one
\* for each way an entry can fail.
Packages ==
    {<<"SWM", <<720, 1, 80, 25, 40>>>>,
     <<"RUN", <<15000, 1, 75>>>>,
     <<"WLK", <<9000, 1, 75, 180>>>>,
     <<"XYZ", <<1, 2, 3>>>>,
     <<"RUN", <<15000, 1>>>>,
     <<"WLK", <<9000, 1, 75, 0>>>>,
     <<"SWM", <<720, 0, 80, 25, 40>>>>}

RECURSIVE Batches(_)
Batches(n) ==
    IF n = 0 THEN {<<>>}
    ELSE {Append(b, p) : b \in Batches(n - 1), p \in Packages}

PackageLists == UNION {Batches(n) : n \in 0..MaxPackages}

NoInputs == [via |-> "none", code |-> "", data |-> <<>>]

NoCall == [call |-> "none", value |-> None]

\* What the client may pass: anything the first time, the same thereafter.
Again(all, same) == IF inputs = NoInputs THEN all ELSE {same}

\* A tally after one more: 1, then 2 for two or more.
Tally(n) == IF n = 0 THEN 1 ELSE 2

(***************************************************************************)
(* The script: for workout_type, data in packages: read_package, main.     *)
(***************************************************************************)
Init ==
    /\ packages \in PackageLists
    /\ pos = 1
    /\ pc = "read_package"
    /\ training = None
    /\ stdout = <<>>
    /\ raised = None
    /\ registry = TRAINING_DATA
    /\ inputs = NoInputs
    /\ ret = NoCall
    /\ infos = {}
    /\ builds = 0
    /\ shows = 0
    /\ libm \in PowRoundings

ReadPackageStep ==
    /\ pc = "read_package"
    /\ pos <= Len(packages)
    /\ \E r \in {read_package_in(registry, packages[pos][1], packages[pos][2])} :
          IF IsExc(r)
          THEN raised' = r /\ pc' = "aborted" /\ UNCHANGED training
          ELSE training' = r /\ pc' = "main" /\ UNCHANGED raised
    /\ UNCHANGED <<packages, pos, stdout, registry, libm, inputs, ret, infos, builds, shows>>

\* MainStep catching the exception of an entry and going on to the next.
MainStep_Swallowing ==
    /\ pc = "main"
    /\ \E r \in {main(training)} :
          IF IsExc(r)
          THEN pos' = pos + 1 /\ pc' = "read_package" /\ UNCHANGED <<stdout, raised>>
          ELSE /\ stdout' = Append(stdout, r.print)
               /\ pos' = pos + 1
               /\ pc' = "read_package"
               /\ UNCHANGED raised
    /\ UNCHANGED <<packages, training, registry, libm, inputs, ret, infos, builds, shows>>

MainStep ==
    /\ pc = "main"
    /\ \E r \in {main(training)} :
          IF IsExc(r)
          THEN raised' = r /\ pc' = "aborted" /\ UNCHANGED <<stdout, pos>>
          ELSE /\ stdout' = Append(stdout, r.print)
               /\ pos' = pos + 1
               /\ pc' = "read_package"
               /\ UNCHANGED raised
    /\ UNCHANGED <<packages, training, registry, libm, inputs, ret, infos, builds, shows>>

Exit ==
    /\ pc = "read_package"
    /\ pos > Len(packages)
    /\ pc' = "done"
    /\ UNCHANGED <<packages, pos, training, stdout, raised, registry, libm, inputs, ret, infos, builds, shows>>

Next == ReadPackageStep \/ MainStep \/ Exit

Spec == Init /\ [][Next]_vars

(***************************************************************************)
(* A client of the module: it builds an instance, through read_package or  *)
(* by calling the base class directly, calls its methods in any order and  *)
(* any number of times, and may build the instance again from the same     *)
(* inputs.                                                                 *)
(***************************************************************************)
InitApi ==
    /\ packages = <<>>
    /\ pos = 1
    /\ pc = "api"
    /\ training = None
    /\ stdout = <<>>
    /\ raised = None
    /\ registry = TRAINING_DATA
    /\ inputs = NoInputs
    /\ ret = NoCall
    /\ infos = {}
    /\ builds = 0
    /\ shows = 0
    /\ libm \in PowRoundings

CallReadPackage ==
    /\ pc = "api"
    /\ inputs.via \in {"none", "read_package"}
    /\ \E code \in Again(Codes, inputs.code), data \in Again(DataLists, inputs.data) :
          /\ \E r \in {read_package_in(registry, code, data)} :
                /\ ret' = [call |-> "read_package", value |-> r]
                /\ training' = IF IsExc(r) THEN None ELSE r
                /\ inputs' = [via |-> "read_package", code |-> code, data |-> data]
                /\ builds' = IF IsExc(r) THEN builds ELSE Tally(builds)
    /\ UNCHANGED <<packages, pos, pc, stdout, raised, registry, libm, infos, shows>>

CallTraining ==
    /\ pc = "api"
    /\ inputs.via \in {"none", "Training"}
    /\ \E data \in Again(Lists(Len(fields("Training"))), inputs.data) :
          /\ training' = Construct("Training", data)
          /\ ret' = [call |-> "Training", value |-> Construct("Training", data)]
          /\ inputs' = [via |-> "Training", code |-> "", data |-> data]
          /\ builds' = Tally(builds)
    /\ UNCHANGED <<packages, pos, pc, stdout, raised, registry, libm, infos, shows>>

CallGetDistance ==
    /\ pc = "api"
    /\ training # None
    /\ ret' = [call |-> "get_distance", value |-> get_distance(training)]
    /\ UNCHANGED <<packages, pos, pc, training, stdout, raised, registry, libm, inputs, infos, builds, shows>>

CallGetMeanSpeed ==
    /\ pc = "api"
    /\ training # None
    /\ ret' = [call |-> "get_mean_speed", value |-> get_mean_speed(training)]
    /\ UNCHANGED <<packages, pos, pc, training, stdout, raised, registry, libm, inputs, infos, builds, shows>>

CallGetSpentCalories ==
    /\ pc = "api"
    /\ training # None
    /\ ret' = [call |-> "get_spent_calories", value |-> get_spent_calories(training)]
    /\ UNCHANGED <<packages, pos, pc, training, stdout, raised, registry, libm, inputs, infos, builds, shows>>

\* show_training_info converting the duration to minutes in place.
CallShowTrainingInfo_InPlace ==
    /\ pc = "api"
    /\ training # None
    /\ \E r \in {show_training_info(training)} :
          /\ ret' = [call |-> "show_training_info", value |-> r]
          /\ infos' = IF IsExc(r) THEN infos ELSE infos \cup {r}
    /\ shows' = Tally(shows)
    /\ training' = [training EXCEPT !.duration = @ * MIN_IN_HOUR]
    /\ UNCHANGED <<packages, pos, pc, stdout, raised, registry, libm, inputs, builds>>

CallShowTrainingInfo ==
    /\ pc = "api"
    /\ training # None
    /\ \E r \in {show_training_info(training)} :
          /\ ret' = [call |-> "show_training_info", value |-> r]
          /\ infos' = IF IsExc(r) THEN infos ELSE infos \cup {r}
    /\ shows' = Tally(shows)
    /\ UNCHANGED <<packages, pos, pc, training, stdout, raised, registry, libm, inputs, builds>>

CallGetMessage ==
    /\ pc = "api"
    /\ ret.call = "show_training_info"
    /\ ~IsExc(ret.value)
    /\ ret' = [call |-> "get_message", value |-> [text |-> get_message(ret.value)]]
    /\ UNCHANGED <<packages, pos, pc, training, stdout, raised, registry, libm, inputs, infos, builds, shows>>

NextApi ==
    \/ CallReadPackage
    \/ CallTraining
    \/ CallGetDistance
    \/ CallGetMeanSpeed
    \/ CallGetSpentCalories
    \/ CallShowTrainingInfo
    \/ CallGetMessage

SpecApi == InitApi /\ [][NextApi]_vars

(***************************************************************************)
(* The properties.  They are written from the description of the module:   *)
(* the table of variants and counts, the formulas and the example values   *)
(* below are the description's, not the model's.                           *)
(***************************************************************************)
VariantOf == [SWM |-> "Swimming", RUN |-> "Running", WLK |-> "SportsWalking"]

RequiredCount == [SWM |-> 5, RUN |-> 3, WLK |-> 4]

ViaReadPackage(code, data) == [via |-> "read_package", code |-> code, data |-> data]

\* The client asked read_package for a registered code with the right count.
WellFormed ==
    /\ inputs.via = "read_package"
    /\ inputs.code \in DOMAIN VariantOf
    /\ Len(inputs.data) = RequiredCount[inputs.code]

\* x <= y for floats that are not negative.
FLe(x, y) ==
    BigCmp(BigShl(x.m, x.e - MinOf(x.e, y.e)), BigShl(y.m, y.e - MinOf(x.e, y.e))) <= 0

Between(lo, x, hi) == FLe(lo, x) /\ FLe(x, hi)

\* C1: for a registered code and a list of the required length read_package
\* succeeds, the instance is of the class registered for the code (Swimming
\* for SWM, Running for RUN, SportsWalking for WLK), and every InfoMessage
\* made from it carries that class's name as training_type.
C1_ResolveClass ==
    WellFormed =>
        /\ training # None
        /\ training.cls = VariantOf[inputs.code]
        /\ ret.call = "read_package" =>
              ~IsExc(ret.value) /\ ret.value.cls = VariantOf[inputs.code]
        /\ ret.call = "show_training_info" /\ ~IsExc(ret.value) =>
              ret.value.training_type = VariantOf[inputs.code]
        /\ \A info \in infos : info.training_type = VariantOf[inputs.code]

C1_Witness ==
    /\ inputs = ViaReadPackage("WLK", <<15000, 1, 75, 180>>)
    /\ ret.call = "show_training_info"
    /\ ~IsExc(ret.value)
    /\ ret.value.training_type = "SportsWalking"

\* The result of read_package for a code that is not registered.
UnknownCodeFailure ==
    /\ ret = [call |-> "read_package",
              value |-> [exc |-> "ValueError",
                         msg |-> "Tip trenirovki " \o inputs.code \o " ne najden"]]
    /\ training = None
    /\ builds = 0

\* The exception class of an arity failure, as the program raises it.
ArityFailureKind == read_package_in(registry, "RUN", <<>>).exc

\* C2 as amended: for a code that is not registered, whatever the length of
\* the list (3, 4 and 5 included), read_package raises a ValueError whose
\* message names the code and no instance is built; the message is the
\* unknown-code message, never the arity message, but the exception class is
\* the same as that of an arity failure: ValueError.
C2_UnknownCode ==
    /\ inputs.via = "read_package" /\ inputs.code \notin DOMAIN VariantOf =>
          /\ UnknownCodeFailure
          /\ ret.value.exc = ArityFailureKind
          /\ \A code \in Codes, n \in 0..(MaxLen + 1) :
                ret.value.msg # WORKOUT_LEN_ERROR(code, Len(inputs.data), n)
    /\ ret.call = "read_package" /\ IsExc(ret.value) => ret.value.exc = "ValueError"

C2_Witness ==
    /\ inputs = ViaReadPackage("XYZ", <<0, 0, 75>>)
    /\ ret.value = [exc |-> "ValueError", msg |-> "Tip trenirovki XYZ ne najden"]

\* C2 as stated: the unknown-code error names the code, builds no instance,
\* and its kind is distinct from the kind of the arity error.
C2_Original ==
    inputs.via = "read_package" /\ inputs.code \notin DOMAIN VariantOf =>
        UnknownCodeFailure /\ ret.value.exc # ArityFailureKind

\* C3: for a registered code and a list whose length is not the required
\* count (3 for RUN, 4 for WLK, 5 for SWM), shorter or longer, read_package
\* raises the arity error, whose message states the code, the count received
\* and the count expected, and no instance is built.
C3_ArityMismatch ==
    /\ inputs.via = "read_package"
    /\ inputs.code \in DOMAIN RequiredCount
    /\ Len(inputs.data) # RequiredCount[inputs.code]
    => /\ ret = [call |-> "read_package",
                 value |-> [exc |-> "ValueError",
                            msg |-> "Nevernoe chislo argumentov trenirovki "
                                    \o inputs.code \o ". Polucheno "
                                    \o ToString(Len(inputs.data)) \o ", ozhidaetsya "
                                    \o ToString(RequiredCount[inputs.code])]]
       /\ training = None
       /\ builds = 0

C3_Witness ==
    /\ inputs = ViaReadPackage("RUN", <<15000, 1, 75, 180>>)
    /\ ret.call = "read_package"
    /\ IsExc(ret.value)
    /\ training = None

\* C4: on success the arguments are assigned by position in declaration
\* order, the base fields first: action, duration, weight, then height for
\* SportsWalking, then length_pool and count_pool for Swimming; the instance
\* has exactly these fields, one per argument.
C4_Positional ==
    ret.call = "read_package" /\ ~IsExc(ret.value) =>
        /\ ret.value.action = inputs.data[1]
        /\ ret.value.duration = inputs.data[2]
        /\ ret.value.weight = inputs.data[3]
        /\ ret.value.cls = "Running" =>
              DOMAIN ret.value = {"cls", "action", "duration", "weight"}
        /\ ret.value.cls = "SportsWalking" =>
              /\ ret.value.height = inputs.data[4]
              /\ DOMAIN ret.value = {"cls", "action", "duration", "weight", "height"}
        /\ ret.value.cls = "Swimming" =>
              /\ ret.value.length_pool = inputs.data[4]
              /\ ret.value.count_pool = inputs.data[5]
              /\ DOMAIN ret.value = {"cls", "action", "duration", "weight",
                                     "length_pool", "count_pool"}
        /\ Cardinality(DOMAIN ret.value) = Len(inputs.data) + 1
        /\ training = ret.value

C4_Witness ==
    /\ ret.call = "read_package"
    /\ inputs = ViaReadPackage("SWM", <<720, 1, 80, 25, 40>>)
    /\ ret.value.length_pool = 25
    /\ ret.value.count_pool = 40

\* What the script does with one entry: the line printed, or the exception.
EntryOutcome(p) ==
    IF IsExc(read_package(p[1], p[2])) THEN read_package(p[1], p[2])
    ELSE main(read_package(p[1], p[2]))

\* Where the script stands: one line printed for each entry passed, a run
\* that was ended was ended by the exception of the entry it is at, and at
\* the end the lines are those of the entries before that one, in order.
DriverInOrder ==
    /\ pos \in 1..(Len(packages) + 1)
    /\ Len(stdout) = pos - 1
    /\ pc = "aborted" =>
          /\ pos <= Len(packages)
          /\ IsExc(raised)
          /\ raised = EntryOutcome(packages[pos])
    /\ pc = "done" => pos = Len(packages) + 1
    /\ pc # "aborted" => raised = None
    /\ pc \in {"aborted", "done"} =>
          \A i \in 1..(pos - 1) :
             \E outcome \in {EntryOutcome(packages[i])} :
                ~IsExc(outcome) /\ stdout[i] = outcome.print

\* A step of the script: none once it has ended; the batch stays; and the
\* script moves on from an entry only by printing that entry's line, which
\* it does only when the entry raises nothing.
DriverStep ==
    /\ pc \notin {"aborted", "done"}
    /\ packages' = packages
    /\ stdout' # stdout \/ pos' # pos =>
          \E outcome \in {EntryOutcome(packages[pos])} :
             /\ ~IsExc(outcome)
             /\ stdout' = Append(stdout, outcome.print)
             /\ pos' = pos + 1

\* C5: the script takes the entries in order and prints one line for each
\* entry that succeeds; the first entry that raises (unknown code, wrong
\* count, division by zero) ends the run: the lines printed are exactly
\* those of the entries before it, the exception is that entry's, and no
\* step follows.
C5_DriverOrder == []DriverInOrder /\ [][DriverStep]_vars

C5_Witness ==
    /\ pc = "aborted"
    /\ pos = 3
    /\ Len(packages) = 3
    /\ Len(stdout) = 2
    /\ raised = ZeroDivisionError

\* C6: no call changes the instance or the registry, an instance built
\* again from the same inputs is the same, and all the InfoMessages made
\* from the same inputs, however many calls and instances, are equal.
C6_NoHiddenState ==
    /\ [](registry = TRAINING_DATA /\ Cardinality(infos) <= 1)
    /\ [][registry' = registry /\ (training # None => training' = training)]_vars

C6_Witness ==
    /\ builds = 2
    /\ shows = 2
    /\ ret.call = "show_training_info"
    /\ infos = {ret.value}

RunExample == inputs = ViaReadPackage("RUN", <<15000, 1, 75>>)

RunDistanceAndSpeed ==
    /\ ret.call = "get_distance" => ret.value = Literal(975, 100)
    /\ ret.call = "get_mean_speed" => ret.value = Literal(975, 100)
    /\ ret.call = "show_training_info" =>
          ret.value.distance = Literal(975, 100) /\ ret.value.speed = Literal(975, 100)

\* C7 as amended: for RUN with [15000, 1, 75] the distance is 9.75, the
\* mean speed is 9.75 and the calories (18 * 9.75 + 1.79) * 75 / 1000 * 1 * 60
\* are 797.805, printed as 797.805.
C7_RunExample ==
    RunExample =>
        /\ RunDistanceAndSpeed
        /\ ret.call = "get_spent_calories" => ret.value = Literal(797805, 1000)
        /\ ret.call = "show_training_info" => ret.value.calories = Literal(797805, 1000)
        /\ ret.call = "get_message" =>
              ret.value.text = "Tip trenirovki: Running; Dlitel'nost': 1.000 ch.; "
                               \o "Distanciya: 9.750 km; Sr. skorost': 9.750 km/ch; "
                               \o "Potracheno kkal: 797.805."

C7_Witness ==
    /\ RunExample
    /\ ret.call = "show_training_info"
    /\ FormatF3(ret.value.calories) = "797.805"

\* C7 as stated: distance 9.75, mean speed 9.75, calories approximately
\* 798.75 (here: within a half of it).
C7_Original ==
    RunExample =>
        /\ RunDistanceAndSpeed
        /\ ret.call = "get_spent_calories" =>
              Between(Literal(79825, 100), ret.value, Literal(79925, 100))

\* The formulas of Swimming over the readings d of the package.
PoolSpeed(d) == FDiv(FDiv(FromInt(d[4] * d[5]), FromInt(1000)), FromInt(d[2]))

StrokeDistance(d) == FDiv(FMul(FromInt(d[1]), Literal(138, 100)), FromInt(1000))

PoolCalories(d) ==
    FMul(FMul(FMul(FAdd(PoolSpeed(d), Literal(11, 10)), FromInt(2)), FromInt(d[3])),
         FromInt(d[2]))

\* C8: for Swimming with a positive duration the mean speed is
\* length_pool * count_pool / 1000 / duration, a function of the pool fields
\* and the duration only, the distance is action * 1.38 / 1000, and both the
\* speed of the InfoMessage and the calories (speed + 1.1) * 2 * weight *
\* duration use that speed; for [720, 1, 80, 25, 40]: distance 0.9936 (to
\* within 10^-8), speed 1.0, calories 336.0.
C8_Swimming ==
    WellFormed /\ inputs.code = "SWM" /\ inputs.data[2] > 0 =>
        /\ ret.call = "get_mean_speed" => ret.value = PoolSpeed(inputs.data)
        /\ ret.call = "get_distance" => ret.value = StrokeDistance(inputs.data)
        /\ ret.call = "get_spent_calories" => ret.value = PoolCalories(inputs.data)
        /\ ret.call = "show_training_info" =>
              /\ ret.value.distance = StrokeDistance(inputs.data)
              /\ ret.value.speed = PoolSpeed(inputs.data)
              /\ ret.value.calories = PoolCalories(inputs.data)
        /\ inputs.data = <<720, 1, 80, 25, 40>> =>
              /\ ret.call = "get_distance" =>
                    Between(Literal(99359999, 100000000), ret.value,
                            Literal(99360001, 100000000))
              /\ ret.call = "get_mean_speed" => ret.value = FromInt(1)
              /\ ret.call = "get_spent_calories" => ret.value = FromInt(336)

C8_Witness ==
    /\ inputs = ViaReadPackage("SWM", <<720, 1, 80, 25, 40>>)
    /\ ret.call = "show_training_info"
    /\ ret.value.speed = FromInt(1)
    /\ ret.value.calories = FromInt(336)
    /\ ret.value.speed # Training_get_mean_speed(training)

\* C9: read_package accepts a zero duration and a zero height; for every
\* instance it returns with duration 0, and for every SportsWalking with
\* height 0 (whatever the other fields, action 0 included),
\* show_training_info raises ZeroDivisionError and makes no InfoMessage.
C9_ZeroDivision ==
    WellFormed =>
        /\ ret.call = "read_package" => ~IsExc(ret.value)
        /\ inputs.data[2] = 0 \/ (inputs.code = "WLK" /\ inputs.data[4] = 0) =>
              /\ ret.call = "show_training_info" => ret.value = ZeroDivisionError
              /\ infos = {}

C9_Witness ==
    /\ inputs = ViaReadPackage("WLK", <<0, 1, 75, 0>>)
    /\ ret = [call |-> "show_training_info", value |-> ZeroDivisionError]
    /\ shows = 1

NotImplementedOnBase ==
    [exc |-> "NotImplementedError", msg |-> "Opredelite get_spent_calories v Training."]

NotReachableByReadPackage ==
    inputs.via = "read_package" =>
        /\ training # None => training.cls # "Training"
        /\ ret.call \in {"get_spent_calories", "show_training_info"} /\ IsExc(ret.value) =>
              ret.value.exc # "NotImplementedError"

\* C10 as amended: on an instance of the base class get_spent_calories
\* raises NotImplementedError with the class name in the message;
\* show_training_info raises it too when the duration is not 0, and raises
\* ZeroDivisionError when the duration is 0 (the mean speed is computed
\* first); neither makes an InfoMessage, and no instance returned by
\* read_package raises NotImplementedError.
C10_NotImplemented ==
    /\ inputs.via = "Training" =>
          /\ ret.call = "get_spent_calories" => ret.value = NotImplementedOnBase
          /\ ret.call = "show_training_info" =>
                ret.value = IF inputs.data[2] = 0 THEN ZeroDivisionError
                            ELSE NotImplementedOnBase
          /\ infos = {}
    /\ NotReachableByReadPackage

C10_Witness ==
    /\ inputs = [via |-> "Training", code |-> "", data |-> <<15000, 1, 75>>]
    /\ ret = [call |-> "show_training_info", value |-> NotImplementedOnBase]

\* C10 as stated: on an instance of the base class get_spent_calories and
\* therefore show_training_info raise NotImplementedError naming the class.
C10_Original ==
    /\ inputs.via = "Training" =>
          /\ ret.call \in {"get_spent_calories", "show_training_info"} =>
                ret.value = NotImplementedOnBase
          /\ infos = {}
    /\ NotReachableByReadPackage

=============================================================================
